---- MODULE Spec2Model ----
(***************************************************************************)
(* atxcf: the settings store (settings.py) and the price network           *)
(* (PriceNetwork.py) as state machines.                                    *)
(*                                                                         *)
(* Python values are tagged records, dictionaries are functions, and the   *)
(* sub-dictionaries of the settings blob live in a heap of objects so that *)
(* dict.copy() (a shallow copy) shares them, as it does in Python.         *)
(***************************************************************************)
EXTENDS Integers, Sequences, FiniteSets, TLC

VARIABLES
    js_settings,      \* settings._js_settings: top-level key -> value or reference
    js_settings_ts,   \* settings._js_settings_ts
    heap,             \* the dict objects the blob's sub-maps refer to
    file,             \* the backing file: absent, a JSON document or no JSON
    now,              \* time.time()
    pc,               \* per thread: the next step of the call it is in
    op,               \* per thread: the call it is in
    sett,             \* per thread: the local `settings` / `sett` variable
    doInit,           \* per thread: get_settings' local doInit
    ret,              \* per thread: how its last call ended
    hist,             \* the (basket name, definition) pairs of the set_basket calls made
    price_graph,      \* PriceNetwork._price_graph: None or a graph
    stored,           \* the QuoteSource price cache: "FROM/TO" -> price and time
    market,           \* what the external quote source answers now, per pair
    last              \* the last PriceNetwork call and its outcome

vars == <<js_settings, js_settings_ts, heap, file, now, pc, op, sett, doInit, ret,
          hist, price_graph, stored, market, last>>

storeVars == <<js_settings, js_settings_ts, heap, file>>
threadVars == <<pc, op, sett, doInit, ret>>
routerVars == <<price_graph, stored, market, last>>

----------------------------------------------------------------------------
(* Bounds of the model *)

MaxTime == 2      \* the clock runs 0..MaxTime
MaxObj == 12      \* dict objects the heap can hold at once
MaxDepth == 4     \* nested get_price calls before Python's recursion limit

----------------------------------------------------------------------------
(* Python values *)

NoItems == [x \in {} |-> 0]

PyNone == [t |-> "None", n |-> 0, s |-> "", d |-> NoItems]
PyInt(i) == [t |-> "int", n |-> i, s |-> "", d |-> NoItems]
PyStr(x) == [t |-> "str", n |-> 0, s |-> x, d |-> NoItems]
PyUnicode(x) == [t |-> "unicode", n |-> 0, s |-> x, d |-> NoItems]
PyTuple(x) == [t |-> "tuple", n |-> 0, s |-> x, d |-> NoItems]
PyList(x) == [t |-> "list", n |-> 0, s |-> x, d |-> NoItems]
PyDict(items) == [t |-> "dict", n |-> 0, s |-> "", d |-> items]
Ref(o) == [t |-> "ref", n |-> o, s |-> "", d |-> NoItems]

IsRef(v) == v.t = "ref"

\* Python's ==: str and unicode compare by their (ASCII) text, a tuple never
\* equals a list.
PyEq(a, b) ==
    \/ a.t \in {"str", "unicode"} /\ b.t \in {"str", "unicode"} /\ a.s = b.s
    \/ a.t = b.t /\ a.n = b.n /\ a.s = b.s /\ a.d = b.d

EmptyDict == [x \in {} |-> PyNone]

\* dict.update(other)
DictUpdate(d, other) ==
    [k \in DOMAIN d \cup DOMAIN other |-> IF k \in DOMAIN other THEN other[k] ELSE d[k]]

\* d[key] = value
DictSet(d, key, value) == DictUpdate(d, key :> value)

\* del d[key]
DictDel(d, key) == [k \in DOMAIN d \ {key} |-> d[k]]

----------------------------------------------------------------------------
(* json.dump / json.load *)

\* A dump that writes str(v) for every value.
DumpValAsStr(v) == [t |-> "string", n |-> 0, s |-> v.s, d |-> NoItems]

\* json.dump: str and unicode are written as a JSON string, tuple and list as a
\* JSON array.
DumpVal(v) ==
    CASE v.t = "int" -> [v EXCEPT !.t = "number"]
      [] v.t \in {"str", "unicode"} -> [v EXCEPT !.t = "string"]
      [] v.t \in {"tuple", "list"} -> [v EXCEPT !.t = "array"]
      [] v.t = "dict" -> [v EXCEPT !.t = "object"]
      [] OTHER -> [v EXCEPT !.t = "null"]

\* json.load: a JSON string is read as unicode, a JSON array as a list.
LoadVal(j) ==
    CASE j.t = "number" -> [j EXCEPT !.t = "int"]
      [] j.t = "string" -> [j EXCEPT !.t = "unicode"]
      [] j.t = "array" -> [j EXCEPT !.t = "list"]
      [] j.t = "object" -> [j EXCEPT !.t = "dict"]
      [] OTHER -> [j EXCEPT !.t = "None"]

\* The backing file: absent, a JSON document, or text that is no JSON document
\* (what a write that failed part way leaves).
NoFile == [kind |-> "absent", doc |-> [x \in {} |-> 0]]
PartialFile == [kind |-> "partial", doc |-> [x \in {} |-> 0]]
JsonFile(doc) == [kind |-> "json", doc |-> doc]

SubMapKeys == {"options", "credentials", "Baskets"}

\* The JSON document json.dump writes for a blob: sub-maps are written through.
JsonDump(blob, h) ==
    [k \in DOMAIN blob |->
        IF IsRef(blob[k])
        THEN [x \in DOMAIN h[blob[k].n] |-> DumpVal(h[blob[k].n][x])]
        ELSE DumpVal(blob[k])]

----------------------------------------------------------------------------
(* The heap of dict objects *)

Threads == {"t1", "t2"}

Objs == 1..MaxObj

EmptyBlob == [x \in {} |-> PyNone]

RefsOf(blob) == {blob[k].n : k \in {x \in DOMAIN blob : IsRef(blob[x])}}

\* The objects some variable of the program still refers to.
UsedBy(js, st) == RefsOf(js) \cup UNION {RefsOf(st[t]) : t \in Threads}

\* A new dict is the i-th object nothing refers to.
NthFree(used, i) ==
    CHOOSE o \in Objs \ used : Cardinality({p \in Objs \ used : p < o}) = i - 1

\* Objects nothing refers to any more are collected.
Gc(h, js, st) == [o \in Objs |-> IF o \in UsedBy(js, st) THEN h[o] ELSE EmptyDict]

\* The blob with its sub-maps read through: what a reader of the blob sees.
Deref(blob, h) ==
    [k \in DOMAIN blob |-> IF IsRef(blob[k]) THEN PyDict(h[blob[k].n]) ELSE blob[k]]

----------------------------------------------------------------------------
(* settings.py *)

ProgramUrl == "https://github.com/transfix/atxcf"
Version == "0.1"
DefaultSyncInterval == 300

get_default_options == "settings_update_interval" :> PyInt(DefaultSyncInterval)

\* init_settings: a new blob with new options and credentials dicts; the
\* module's timestamp is set (it is declared global here).
init_settings(used, h, t) ==
    LET o1 == NthFree(used, 1)
        o2 == NthFree(used, 2)
    IN  [js |-> "program_url" :> PyStr(ProgramUrl) @@ "version" :> PyStr(Version)
                @@ "last_updated" :> PyInt(t) @@ "options" :> Ref(o1)
                @@ "credentials" :> Ref(o2),
         heap |-> [h EXCEPT ![o1] = get_default_options, ![o2] = EmptyDict],
         ts |-> t]

SubMapOrder == <<"options", "credentials", "Baskets">>

\* json.load(open(fn)): every sub-map of the document becomes a new dict.
json_load(doc, used, h) ==
    LET present == SelectSeq(SubMapOrder, LAMBDA k : k \in DOMAIN doc)
        obj(k) == NthFree(used, CHOOSE i \in 1..Len(present) : present[i] = k)
        subs == {present[i] : i \in 1..Len(present)}
    IN  [js |-> [k \in DOMAIN doc |->
                    IF k \in subs THEN Ref(obj(k)) ELSE LoadVal(doc[k])],
         heap |-> [o \in Objs |->
                    IF \E k \in subs : obj(k) = o
                    THEN LET k == CHOOSE k \in subs : obj(k) = o
                         IN  [x \in DOMAIN doc[k] |-> LoadVal(doc[k][x])]
                    ELSE h[o]]]

\* _check_options_section
HasOptionsSection(settings) == "options" \in DOMAIN settings

NoOp == [name |-> "none", key |-> "", val |-> PyNone]
Returned(v) == [ok |-> TRUE, val |-> v, err |-> ""]
Raised(e) == [ok |-> FALSE, val |-> PyNone, err |-> e]
NoRet == [ok |-> FALSE, val |-> PyNone, err |-> "running"]

NoHist == [set_baskets |-> {}, mutated_at |-> 0]

\* The call of thread t ends: its locals are dropped.
Finish(t, r, js, h) ==
    /\ pc' = [pc EXCEPT ![t] = "idle"]
    /\ ret' = [ret EXCEPT ![t] = r]
    /\ sett' = [sett EXCEPT ![t] = EmptyBlob]
    /\ doInit' = [doInit EXCEPT ![t] = FALSE]
    /\ js_settings' = js
    /\ heap' = Gc(h, js, sett')
    /\ UNCHANGED op

\* The call of thread t goes on at step p with local blob s.
Goto(t, p, s, js, h) ==
    /\ pc' = [pc EXCEPT ![t] = p]
    /\ sett' = [sett EXCEPT ![t] = s]
    /\ js_settings' = js
    /\ heap' = Gc(h, js, sett')
    /\ UNCHANGED <<op, ret>>

\* A thread calls a function of the settings module. reload_settings first
\* empties the blob; every other function starts with get_settings().
Call(t, o) ==
    /\ pc[t] = "idle"
    /\ op' = [op EXCEPT ![t] = o]
    /\ pc' = [pc EXCEPT ![t] = IF o.name = "reload_settings" THEN "reload" ELSE "gs_check"]
    /\ ret' = [ret EXCEPT ![t] = NoRet]
    /\ hist' = IF o.name = "set_basket"
               THEN [hist EXCEPT !.set_baskets = @ \cup {<<o.key, o.val>>}]
               ELSE hist
    /\ UNCHANGED <<storeVars, now, sett, doInit, routerVars>>

\* reload_settings, lines 124-126: the blob is emptied under the lock; the
\* assignment to _js_settings_ts is to a local (no global declaration).
ReloadClear(t) ==
    /\ pc[t] = "reload"
    /\ Goto(t, "gs_check", sett[t], EmptyBlob, heap)
    /\ UNCHANGED <<js_settings_ts, file, now, doInit, hist, routerVars>>

\* get_settings, lines 85-97: under the lock, an empty blob is loaded from the
\* file if there is one (a read can fail with IOError; a document that is no
\* JSON makes json.load raise ValueError), else doInit is set. The caller goes
\* on at step p.
get_settings_locked(t, p) ==
    /\ \E ioerror \in BOOLEAN :
        IF DOMAIN js_settings # {}
        THEN /\ ~ioerror
             /\ Goto(t, p, sett[t], js_settings, heap)
             /\ UNCHANGED <<js_settings_ts, doInit>>
        ELSE IF file = NoFile
        THEN /\ ~ioerror
             /\ Goto(t, "gs_init", sett[t], js_settings, heap)
             /\ doInit' = [doInit EXCEPT ![t] = TRUE]
             /\ UNCHANGED js_settings_ts
        ELSE IF ioerror
        THEN /\ Finish(t, Raised("SettingsError"), js_settings, heap)
             /\ UNCHANGED js_settings_ts
        ELSE IF file = PartialFile
        THEN /\ Finish(t, Raised("ValueError"), js_settings, heap)
             /\ UNCHANGED js_settings_ts
        ELSE LET m == json_load(file.doc, UsedBy(js_settings, sett), heap)
             IN  /\ Goto(t, p, sett[t], m.js, m.heap)
                 /\ js_settings_ts' = now
                 /\ UNCHANGED doInit
    /\ UNCHANGED <<file, now, hist, routerVars>>

GsCheck(t) ==
    /\ pc[t] = "gs_check"
    /\ get_settings_locked(t, "gs_copy")

\* get_settings, lines 98-99: init_settings() runs after the lock is released.
GsInit(t) ==
    /\ pc[t] = "gs_init"
    /\ LET m == init_settings(UsedBy(js_settings, sett), heap, now)
       IN  /\ Goto(t, "gs_copy", sett[t], m.js, m.heap)
           /\ js_settings_ts' = m.ts
    /\ UNCHANGED <<file, now, doInit, hist, routerVars>>

\* Where a function goes on once its get_settings() has returned.
AfterGetSettings(o) ==
    CASE o.name = "write_settings" -> "ws_ts"
      [] o.name = "reload_settings" -> "return"
      [] OTHER -> "body"

\* copy.deepcopy(blob): every sub-map of the copy is a new dict.
deep_copy(blob, used, h) ==
    LET subs == SelectSeq(SubMapOrder, LAMBDA k : k \in DOMAIN blob /\ IsRef(blob[k]))
        obj(k) == NthFree(used, CHOOSE i \in 1..Len(subs) : subs[i] = k)
        keys == {subs[i] : i \in 1..Len(subs)}
    IN  [blob |-> [k \in DOMAIN blob |-> IF k \in keys THEN Ref(obj(k)) ELSE blob[k]],
         heap |-> [o \in Objs |->
                    IF \E k \in keys : obj(k) = o
                    THEN h[blob[CHOOSE k \in keys : obj(k) = o].n]
                    ELSE h[o]]]

\* dict.copy(), line 101: a shallow copy: a new top level whose sub-maps are
\* the copied blob's own dicts.
dict_copy(blob, used, h) == [blob |-> blob, heap |-> h]

\* get_settings, lines 100-102: the copy of _js_settings is returned.
GsCopy(t) ==
    /\ pc[t] = "gs_copy"
    /\ IF AfterGetSettings(op[t]) = "return"
       THEN Finish(t, Returned(PyNone), js_settings, heap)
       ELSE LET c == dict_copy(js_settings, UsedBy(js_settings, sett), heap)
            IN  Goto(t, AfterGetSettings(op[t]), c.blob, js_settings, c.heap)
    /\ UNCHANGED <<js_settings_ts, file, now, doInit, hist, routerVars>>

\* The options dict a blob refers to.
OptionsOf(blob, h) == h[blob["options"].n]

\* get_option, lines 150-154, of the blob get_settings() returned
get_option(settings, h, option) ==
    IF ~HasOptionsSection(settings) \/ option \notin DOMAIN OptionsOf(settings, h)
    THEN Raised("SettingsError")
    ELSE Returned(OptionsOf(settings, h)[option])

GetOption(t) ==
    /\ pc[t] = "body"
    /\ op[t].name = "get_option"
    /\ Finish(t, get_option(sett[t], heap, op[t].key), js_settings, heap)
    /\ UNCHANGED <<js_settings_ts, file, now, hist, routerVars>>

\* set_option, lines 172-174: the value is stored in the options dict of the copy.
SetOption(t) ==
    /\ pc[t] = "body"
    /\ op[t].name = "set_option"
    /\ IF ~HasOptionsSection(sett[t])
       THEN Finish(t, Raised("SettingsError"), js_settings, heap)
       ELSE Goto(t, "set", sett[t], js_settings,
                 [heap EXCEPT ![sett[t]["options"].n] = DictSet(@, op[t].key, op[t].val)])
    /\ UNCHANGED <<js_settings_ts, file, now, doInit, hist, routerVars>>

\* remove_option, lines 191-195
RemoveOption(t) ==
    /\ pc[t] = "body"
    /\ op[t].name = "remove_option"
    /\ IF ~HasOptionsSection(sett[t]) \/ op[t].key \notin DOMAIN OptionsOf(sett[t], heap)
       THEN Finish(t, Raised("SettingsError"), js_settings, heap)
       ELSE Goto(t, "set", sett[t], js_settings,
                 [heap EXCEPT ![sett[t]["options"].n] = DictDel(@, op[t].key)])
    /\ UNCHANGED <<js_settings_ts, file, now, doInit, hist, routerVars>>

\* A caller of get_settings() changes the blob it was handed, at the top level
\* (sub = "") or inside one of its sub-maps, and does not pass it back.
CallerMutates(t) ==
    /\ pc[t] = "body"
    /\ op[t].name = "get_settings"
    /\ \E sub \in {""} \cup (SubMapKeys \cap DOMAIN sett[t]) :
        IF sub = ""
        THEN Finish(t, Returned(PyNone), js_settings, heap)
        ELSE Finish(t, Returned(PyNone), js_settings,
                    [heap EXCEPT ![sett[t][sub].n] = DictSet(@, op[t].key, op[t].val)])
    /\ UNCHANGED <<js_settings_ts, file, now, hist, routerVars>>

\* Whether the call ends with PriceNetwork.init_graph().
RebuildsGraph(o) == o.name \in {"set_basket", "remove_basket"}

\* set_settings, lines 113-115: dict.update under the lock. _js_settings_ts is
\* not declared global in set_settings, so the assignment makes a local and the
\* module's timestamp stays as it was.
set_settings(js, new_settings) == DictUpdate(js, new_settings)

SetSettings(t) ==
    /\ pc[t] = "set"
    /\ hist' = [hist EXCEPT !.mutated_at = now]
    /\ IF RebuildsGraph(op[t])
       THEN Goto(t, "graph", sett[t], set_settings(js_settings, sett[t]), heap)
            /\ UNCHANGED doInit
       ELSE Finish(t, Returned(PyNone), set_settings(js_settings, sett[t]), heap)
    /\ UNCHANGED <<js_settings_ts, file, now, routerVars>>

\* write_settings, lines 135-136: the copy's last_updated is the module timestamp.
WsTimestamp(t) ==
    /\ pc[t] = "ws_ts"
    /\ Goto(t, "ws_dump", DictSet(sett[t], "last_updated", PyInt(js_settings_ts)),
            js_settings, heap)
    /\ UNCHANGED <<js_settings_ts, file, now, doInit, hist, routerVars>>

\* write_settings, lines 137-143: open(fn, 'w') truncates the file and json.dump
\* writes the copy. open can fail (the file stays as it was) and the write can
\* fail part way (a truncated file); both are IOError, raised as SettingsError.
json_dump_to_file(t) ==
    /\ \E outcome \in {"written", "open fails", "write fails"} :
        /\ file' = CASE outcome = "written" -> JsonFile(JsonDump(sett[t], heap))
                     [] outcome = "open fails" -> file
                     [] OTHER -> PartialFile
        /\ Finish(t, IF outcome = "written" THEN Returned(PyNone)
                     ELSE Raised("SettingsError"), js_settings, heap)
    /\ UNCHANGED <<js_settings_ts, now, hist, routerVars>>

WsDump(t) ==
    /\ pc[t] = "ws_dump"
    /\ json_dump_to_file(t)

NoHeap == [o \in Objs |-> EmptyDict]

\* The module is imported (lines 18-20) and its get_settings() (line 280) runs
\* on the file f: no file seeds the defaults, a JSON document is loaded, and
\* anything else makes json.load raise, which leaves the blob empty.
import_settings(f, t) ==
    IF f = NoFile THEN init_settings({}, NoHeap, t)
    ELSE IF f = PartialFile THEN [js |-> EmptyBlob, heap |-> NoHeap]
    ELSE json_load(f.doc, {}, NoHeap)

\* The process ends and is started again: atexit runs write_settings() (lines
\* 267-268, with the outcomes of WsDump), then the module is imported anew.
Restart ==
    /\ \A t \in Threads : pc[t] = "idle"
    /\ DOMAIN js_settings # {}
    /\ \E outcome \in {"written", "open fails", "write fails"} :
        /\ file' = CASE outcome = "written" ->
                            JsonFile(JsonDump(DictSet(js_settings, "last_updated",
                                                      PyInt(js_settings_ts)), heap))
                     [] outcome = "open fails" -> file
                     [] OTHER -> PartialFile
        /\ op' = [t \in Threads |-> [name |-> "restart", key |-> outcome, val |-> PyNone]]
    /\ js_settings' = import_settings(file', now).js
    /\ heap' = import_settings(file', now).heap
    /\ js_settings_ts' = now
    /\ pc' = [t \in Threads |-> "idle"]
    /\ sett' = [t \in Threads |-> EmptyBlob]
    /\ doInit' = [t \in Threads |-> FALSE]
    /\ ret' = [t \in Threads |-> NoRet]
    /\ hist' = NoHist
    /\ UNCHANGED <<now, routerVars>>

\* time.time() moves on.
Tick ==
    /\ now < MaxTime
    /\ now' = now + 1
    /\ UNCHANGED <<storeVars, threadVars, hist, routerVars>>

----------------------------------------------------------------------------
(* The quote source (PriceSource.AllSources, the base class of PriceNetwork) *)

QuoteSymbols == <<"X", "Y", "Z">>       \* AllSources.get_symbols()
QuoteMarkets == <<"X/Y", "Y/Z">>        \* AllSources.get_markets()
BaseSymbols == <<"Z">>                  \* AllSources.get_base_symbols()
BasketNames == {"K", "X"}
Symbols == {"K", "X", "Y", "Z"}
SymbolOrder == <<"K", "X", "Y", "Z">>
PriceValues == {0, 2}
QuotePairs == {QuoteMarkets[i] : i \in 1..Len(QuoteMarkets)}

QuoteFails == [ok |-> FALSE, price |-> 0]
Quoted(p) == [ok |-> TRUE, price |-> p]

\* "{0}/{1}".format(from_asset, to_asset)
Format(from, to) == from \o "/" \o to

\* mkt_pair_str.split("/"), for the market strings Format makes of two symbols
Split(mkt) == CHOOSE p \in Symbols \X Symbols : Format(p[1], p[2]) = mkt

Ok(v) == [ok |-> TRUE, v |-> v, err |-> ""]
Err(e) == [ok |-> FALSE, v |-> 0, err |-> e]

\* PriceNetworkError is a PriceSourceError; the errors of networkx, of the
\* settings module and of the interpreter are not.
IsPriceSourceError(e) == e \in {"PriceSourceError", "PriceNetworkError"}

\* _has_stored_price
has_stored_price(st, pair) == pair \in DOMAIN st

\* AllSources.get_price: a fresh quote. It fails with a PriceSourceError or
\* returns the quoted price times value and stores the price with its time.
quote_get_price(e, r, from, to, value) ==
    LET pair == Format(from, to)
        asked == [r EXCEPT !.quotes = @ \cup {pair}]
    IN  IF pair \in DOMAIN e.market /\ e.market[pair].ok
        THEN [asked EXCEPT !.stored = DictSet(@, pair, [price |-> e.market[pair].price,
                                                        time |-> e.now]),
                           !.res = Ok(e.market[pair].price * value)]
        ELSE [asked EXCEPT !.res = Err("PriceSourceError")]

----------------------------------------------------------------------------
(* networkx *)

NoGraph == [built |-> FALSE, nodes |-> {}, edges |-> {}]

Nbrs(G, n) == {m \in G.nodes : {n, m} \in G.edges}

RECURSIVE Bfs(_, _, _, _)
\* Breadth-first search from the paths found so far: a shortest path to t. Which
\* of several shortest paths networkx returns is not specified.
Bfs(G, paths, seen, t) ==
    LET hit == {p \in paths : p[Len(p)] = t}
        next == {Append(p, n) : p \in paths, n \in G.nodes}
        ext == {p \in next : /\ p[Len(p)] \in Nbrs(G, p[Len(p) - 1])
                             /\ p[Len(p)] \notin seen}
    IN  IF hit # {} THEN [path |-> CHOOSE p \in hit : TRUE, err |-> ""]
        ELSE IF ext = {} THEN [path |-> <<>>, err |-> "NetworkXNoPath"]
        ELSE Bfs(G, ext, seen \cup {p[Len(p)] : p \in ext}, t)

\* nx.shortest_path(G, source, target): raises NetworkXNoPath when there is no
\* path and a NetworkXError when a node is not in the graph.
shortest_path(G, source, target) ==
    IF source \notin G.nodes \/ target \notin G.nodes
    THEN [path |-> <<>>, err |-> "NetworkXError"]
    ELSE Bfs(G, {<<source>>}, {source}, target)

----------------------------------------------------------------------------
(* PriceNetwork.py *)

\* What a PriceNetwork call reads and does not change: the baskets and options
\* of the settings, the quote source's answers and the clock.
EnvOf(js, h, mk, t) ==
    [baskets |-> h[js["Baskets"].n],
     interval |-> IF "options" \in DOMAIN js /\ "price_update_interval" \in DOMAIN OptionsOf(js, h)
                  THEN Ok(OptionsOf(js, h)["price_update_interval"].n)
                  ELSE Err("SettingsError"),
     market |-> mk,
     now |-> t]

\* What a call changes as it runs: the price cache and the graph; and what it
\* did: the pairs it asked a fresh quote for, the baskets it valued, its result.
Run(st, G) == [stored |-> st, graph |-> G, quotes |-> {}, valued |-> {}, res |-> Ok(0)]

\* _is_basket
is_basket(e, name) == name \in DOMAIN e.baskets

\* Python's `not last_price`: true of None and of 0.
Not(last_price) == last_price.none \/ last_price.v = 0

\* The order in which a dict's keys are iterated.
KeysInOrder(d) == SelectSeq(SymbolOrder, LAMBDA k : k \in DOMAIN d)

RECURSIVE get_price(_, _, _, _, _, _, _)
RECURSIVE do_get_price(_, _, _, _, _, _, _)
RECURSIVE get_basket_value(_, _, _, _, _, _)
RECURSIVE basket_items(_, _, _, _, _, _, _, _, _)
RECURSIVE path_pairs(_, _, _, _, _, _, _)
RECURSIVE get_price_graph(_, _, _)
RECURSIVE init_graph(_, _, _)
RECURSIVE get_markets(_, _, _, _, _, _)
RECURSIVE market_prices(_, _, _, _, _, _)

\* A loop that assigns (=) the value x of each constituent instead of adding it.
basket_assign(e, x, names, i, basket_d, to_asset, get_last, amount, d) ==
    IF ~x.res.ok THEN x
    ELSE basket_items(e, x, names, i + 1, basket_d, to_asset, get_last, x.res.v, d)

\* _get_basket_value, line 56: the value x of one constituent is added, and an
\* error ends the loop.
basket_add(e, x, names, i, basket_d, to_asset, get_last, amount, d) ==
    IF ~x.res.ok THEN x
    ELSE basket_items(e, x, names, i + 1, basket_d, to_asset, get_last, amount + x.res.v, d)

\* _get_basket_value, lines 54-57: the loop over basket_d.iteritems()
basket_items(e, r, names, i, basket_d, to_asset, get_last, amount, d) ==
    IF i > Len(names) THEN [r EXCEPT !.res = Ok(amount)]
    ELSE basket_add(e, get_price(e, r, names[i], to_asset, basket_d[names[i]], get_last, d),
                    names, i, basket_d, to_asset, get_last, amount, d)

\* _get_basket_value, lines 46-57
get_basket_value(e, r, basket_name, to_asset, get_last, d) ==
    IF basket_name \notin DOMAIN e.baskets
    THEN [r EXCEPT !.res = Err("PriceNetworkError")]
    ELSE basket_items(e, [r EXCEPT !.valued = @ \cup {basket_name}],
                      KeysInOrder(e.baskets[basket_name].d), 1, e.baskets[basket_name].d,
                      to_asset, get_last, 0, d)

\* _do_get_price, line 87: the basket's value b times value
Scaled(b, value) == IF b.res.ok THEN [b EXCEPT !.res = Ok(b.res.v * value)] ELSE b

\* _do_get_price, lines 81-84: the stored price times value, if the pair is
\* cached and get_last is set or the entry is no older than the interval
cached_price(e, r, mkt_pair_str, value, get_last) ==
    IF /\ has_stored_price(r.stored, mkt_pair_str)
       /\ (get_last \/ e.now - r.stored[mkt_pair_str].time <= e.interval.v)
    THEN [none |-> FALSE, v |-> r.stored[mkt_pair_str].price * value]
    ELSE [none |-> TRUE, v |-> 0]

\* _do_get_price, lines 70-92. The basket's value is asked without get_last
\* (line 87), so its constituents are priced with get_last = False.
do_get_price(e, r, from_asset, to_asset, value, get_last, d) ==
    LET last_price == cached_price(e, r, Format(from_asset, to_asset), value, get_last)
    IN  IF ~e.interval.ok THEN [r EXCEPT !.res = Err(e.interval.err)]
        ELSE IF Not(last_price) /\ is_basket(e, from_asset)
        THEN Scaled(get_basket_value(e, r, from_asset, to_asset, FALSE, d), value)
        ELSE IF Not(last_price)
        THEN quote_get_price(e, r, from_asset, to_asset, value)
        ELSE [r EXCEPT !.res = Ok(last_price.v)]

\* get_price, line 239: the price x of one pair is the value for the next pair,
\* and an error ends the loop.
path_next(e, x, sh_p, i, get_last, d) ==
    IF ~x.res.ok THEN x ELSE path_pairs(e, x, sh_p, i + 1, x.res.v, get_last, d)

\* get_price, lines 238-240: the loop over the path's consecutive pairs
path_pairs(e, r, sh_p, i, cur_value, get_last, d) ==
    IF i >= Len(sh_p) THEN [r EXCEPT !.res = Ok(cur_value)]
    ELSE path_next(e, do_get_price(e, r, sh_p[i], sh_p[i + 1], cur_value, get_last, d),
                   sh_p, i, get_last, d)

\* get_price, lines 232-240: the shortest path sh in the graph g has got
route(e, g, sh, value, get_last, d) ==
    IF sh.err # "" THEN [g EXCEPT !.res = Err(sh.err)]
    ELSE IF Len(sh.path) <= 1 THEN [g EXCEPT !.res = Err("PriceNetworkError")]
    ELSE path_pairs(e, g, sh.path, 1, value, get_last, d)

\* get_price, lines 231-232: g is what _get_price_graph() has returned or raised
routed(e, g, from_asset, to_asset, value, get_last, d) ==
    IF ~g.res.ok THEN g
    ELSE route(e, g, shortest_path(g.graph, from_asset, to_asset), value, get_last, d)

\* A get_price that goes to the graph for equal assets too.
get_price_always_routed(e, r, from_asset, to_asset, value, get_last, d) ==
    IF d = 0 THEN [r EXCEPT !.res = Err("RuntimeError")]
    ELSE routed(e, get_price_graph(e, r, d - 1), from_asset, to_asset, value, get_last, d - 1)

\* get_price, lines 225-240. d is the number of nested get_price calls left
\* before the interpreter's recursion limit (a RuntimeError).
get_price(e, r, from_asset, to_asset, value, get_last, d) ==
    IF from_asset = to_asset THEN [r EXCEPT !.res = Ok(value)]
    ELSE IF d = 0 THEN [r EXCEPT !.res = Err("RuntimeError")]
    ELSE routed(e, get_price_graph(e, r, d - 1), from_asset, to_asset, value, get_last, d - 1)

\* get_symbols, lines 182-189
get_symbols(e) == KeysInOrder(e.baskets) \o QuoteSymbols

\* get_markets, lines 213-216: the pair is a market if get_price returned; a
\* PriceSourceError is passed over; any other error is not caught.
markets_next(e, x, pairs, i, basket_markets, d) ==
    IF x.res.ok
    THEN get_markets(e, x, pairs, i + 1,
                     Append(basket_markets, Format(pairs[i][1], pairs[i][2])), d)
    ELSE IF IsPriceSourceError(x.res.err)
    THEN get_markets(e, x, pairs, i + 1, basket_markets, d)
    ELSE [run |-> x, markets |-> basket_markets]

\* get_markets, lines 209-216: the loop over baskets and base symbols; pairs is
\* the list of (basket_name, base_cur) to try.
get_markets(e, r, pairs, i, basket_markets, d) ==
    IF i > Len(pairs) THEN [run |-> [r EXCEPT !.res = Ok(0)], markets |-> basket_markets]
    ELSE markets_next(e, get_price(e, r, pairs[i][1], pairs[i][2], 1, TRUE, d),
                      pairs, i, basket_markets, d)

\* The (basket_name, base_cur) pairs get_markets tries, in its loops' order.
BasketBasePairs(e) ==
    LET names == KeysInOrder(e.baskets)
        n == Len(BaseSymbols)
    IN  [j \in 1..(Len(names) * n) |->
            <<names[((j - 1) \div n) + 1], BaseSymbols[((j - 1) % n) + 1]>>]

\* G.add_edge(from_mkt, to_mkt, last_price = last_price), line 131. The graph
\* is searched by hop count; the price on the edge is never read.
add_edge(G, mkt_pair) ==
    [G EXCEPT !.nodes = @ \cup {mkt_pair[1], mkt_pair[2]},
              !.edges = @ \cup {{mkt_pair[1], mkt_pair[2]}}]

\* _generate_graph, lines 114-118 and 126-132: a market whose price x was got
\* has an edge; one that raised a PriceSourceError has none; any other error
\* is not caught.
market_next(e, x, all_markets, i, G, d) ==
    IF x.res.ok
    THEN market_prices(e, x, all_markets, i + 1, add_edge(G, Split(all_markets[i])), d)
    ELSE IF IsPriceSourceError(x.res.err)
    THEN market_prices(e, x, all_markets, i + 1, G, d)
    ELSE x

\* _generate_graph, lines 106-132: get_mkt_price for each market, and an edge
\* for each market whose price is not None. A stored price is used whatever
\* its age.
market_prices(e, r, all_markets, i, G, d) ==
    IF i > Len(all_markets) THEN [r EXCEPT !.graph = G, !.res = Ok(0)]
    ELSE IF has_stored_price(r.stored, all_markets[i])
    THEN market_prices(e, r, all_markets, i + 1, add_edge(G, Split(all_markets[i])), d)
    ELSE market_next(e, do_get_price(e, r, Split(all_markets[i])[1], Split(all_markets[i])[2],
                                     1, FALSE, d),
                     all_markets, i, G, d)

\* _generate_graph, lines 96-101: the graph of all symbols, without edges
symbol_graph(all_symbols) ==
    [built |-> TRUE, nodes |-> {all_symbols[i] : i \in 1..Len(all_symbols)}, edges |-> {}]

\* _generate_graph, lines 102-146: m is what get_markets() has returned or raised
generate_graph(e, m, d) ==
    IF ~m.run.res.ok THEN m.run
    ELSE market_prices(e, m.run, m.markets \o QuoteMarkets, 1, symbol_graph(get_symbols(e)), d)

\* init_graph, lines 156-162: the new graph replaces the old one when
\* _generate_graph returns.
init_graph(e, r, d) ==
    generate_graph(e, get_markets(e, r, BasketBasePairs(e), 1, <<>>, d), d)

\* _get_price_graph, lines 149-153
get_price_graph(e, r, d) ==
    IF ~r.graph.built THEN init_graph(e, r, d) ELSE [r EXCEPT !.res = Ok(0)]

\* PriceNetwork.__init__, lines 29-32: a Baskets section is added to the
\* settings when there is none.
price_network_init(js, h, used) ==
    IF "Baskets" \in DOMAIN js THEN [js |-> js, heap |-> h]
    ELSE [js |-> set_settings(js, DictSet(js, "Baskets", Ref(NthFree(used, 1)))),
          heap |-> [h EXCEPT ![NthFree(used, 1)] = EmptyDict]]

RECURSIVE Join(_)
\* The string of a list of characters.
Join(chars) == IF chars = <<>> THEN "" ELSE Head(chars) \o Join(Tail(chars))

RECURSIVE Strip(_)
\* str.strip(): without the white space at either end
Strip(chars) ==
    IF chars # <<>> /\ Head(chars) = " " THEN Strip(Tail(chars))
    ELSE IF chars # <<>> /\ chars[Len(chars)] = " " THEN Strip(SubSeq(chars, 1, Len(chars) - 1))
    ELSE chars

\* string.split(trade_pair_str, "/", 1): split at the first separator only
Split1(chars) ==
    LET at == {i \in 1..Len(chars) : chars[i] = "/"}
        first == CHOOSE i \in at : \A j \in at : i <= j
    IN  IF at = {} THEN <<chars>>
        ELSE <<SubSeq(chars, 1, first - 1), SubSeq(chars, first + 1, Len(chars))>>

\* price, lines 243-250
price(e, r, trade_pair_str, value, get_last, d) ==
    IF Len(Split1(trade_pair_str)) # 2 THEN [r EXCEPT !.res = Err("PriceNetworkError")]
    ELSE get_price(e, r, Join(Strip(Split1(trade_pair_str)[1])),
                   Join(Strip(Split1(trade_pair_str)[2])), value, get_last, d)

----------------------------------------------------------------------------
(* Calls of one PriceNetwork, one at a time *)

NoCall == [call |-> "none", from |-> "", to |-> "", value |-> 0, get_last |-> FALSE,
           text |-> <<>>, res |-> Ok(0), quotes |-> {}, valued |-> {}]

Called(name, from, to, value, get_last, text, x) ==
    [call |-> name, from |-> from, to |-> to, value |-> value, get_last |-> get_last,
     text |-> text, res |-> x.res, quotes |-> x.quotes, valued |-> x.valued]

Env == EnvOf(js_settings, heap, market, now)

\* The PriceNetwork exists (its constructor has run) and no call is under way.
Ready == "Baskets" \in DOMAIN js_settings /\ last.call = "none"

Values == {0, 2}
PairTexts == {<<"X", "/", "Z">>, <<"X", "Z">>, <<"X", "/", "Y", "/", "Z">>,
              <<"X", " ", "/", "Z">>}
BasketsSet == {<<"K", ("X" :> 2 @@ "Y" :> 1)>>, <<"X", ("Y" :> 2)>>}
Queries == {<<"X", "Z">>, <<"Y", "Z">>, <<"K", "Z">>, <<"Z", "Z">>, <<"K", "K">>}
Pairs == {<<"X", "Y">>, <<"Y", "Z">>, <<"K", "Z">>, <<"X", "Z">>}

\* The outcome x of a call: its changes to the cache and the graph are kept.
Outcome(x, name, from, to, value, get_last, text) ==
    /\ stored' = x.stored
    /\ price_graph' = x.graph
    /\ last' = Called(name, from, to, value, get_last, text, x)
    /\ UNCHANGED market

GetPriceCall(from, to, value, get_last) ==
    /\ Ready
    /\ Outcome(get_price(Env, Run(stored, price_graph), from, to, value, get_last, MaxDepth),
               "get_price", from, to, value, get_last, <<>>)
    /\ UNCHANGED <<storeVars, now, threadVars, hist>>

DoGetPriceCall(from, to, value, get_last) ==
    /\ Ready
    /\ Outcome(do_get_price(Env, Run(stored, price_graph), from, to, value, get_last, MaxDepth),
               "_do_get_price", from, to, value, get_last, <<>>)
    /\ UNCHANGED <<storeVars, now, threadVars, hist>>

GetBasketValueCall(basket_name, to, get_last) ==
    /\ Ready
    /\ Outcome(get_basket_value(Env, Run(stored, price_graph), basket_name, to, get_last,
                                MaxDepth),
               "_get_basket_value", basket_name, to, 1, get_last, <<>>)
    /\ UNCHANGED <<storeVars, now, threadVars, hist>>

PriceCall(text, value, get_last) ==
    /\ Ready
    /\ Outcome(price(Env, Run(stored, price_graph), text, value, get_last, MaxDepth),
               "price", "", "", value, get_last, text)
    /\ UNCHANGED <<storeVars, now, threadVars, hist>>

InitGraphCall ==
    /\ Ready
    /\ Outcome(init_graph(Env, Run(stored, price_graph), MaxDepth),
               "init_graph", "", "", 0, FALSE, <<>>)
    /\ UNCHANGED <<storeVars, now, threadVars, hist>>

\* set_basket, lines 192-196
SetBasketCall(basket_name, basket_d) ==
    /\ Ready
    /\ LET sett_ == js_settings
           h == [heap EXCEPT ![sett_["Baskets"].n] = DictSet(@, basket_name, PyDict(basket_d))]
           js == set_settings(js_settings, sett_)
       IN  /\ js_settings' = js
           /\ heap' = h
           /\ Outcome(init_graph(EnvOf(js, h, market, now), Run(stored, price_graph), MaxDepth),
                      "set_basket", basket_name, "", 0, FALSE, <<>>)
    /\ UNCHANGED <<js_settings_ts, file, now, threadVars, hist>>

\* remove_basket, lines 199-203: del raises KeyError for a name that is no basket.
RemoveBasketCall(basket_name) ==
    /\ Ready
    /\ IF basket_name \notin DOMAIN heap[js_settings["Baskets"].n]
       THEN /\ last' = Called("remove_basket", basket_name, "", 0, FALSE, <<>>,
                              [Run(stored, price_graph) EXCEPT !.res = Err("KeyError")])
            /\ UNCHANGED <<js_settings, heap, stored, price_graph, market>>
       ELSE LET sett_ == js_settings
                h == [heap EXCEPT ![sett_["Baskets"].n] = DictDel(@, basket_name)]
                js == set_settings(js_settings, sett_)
            IN  /\ js_settings' = js
                /\ heap' = h
                /\ Outcome(init_graph(EnvOf(js, h, market, now), Run(stored, price_graph),
                                      MaxDepth),
                           "remove_basket", basket_name, "", 0, FALSE, <<>>)
    /\ UNCHANGED <<js_settings_ts, file, now, threadVars, hist>>

\* The caller has its result; the next call can be made.
Return ==
    /\ last.call # "none"
    /\ last' = NoCall
    /\ UNCHANGED <<storeVars, now, threadVars, hist, price_graph, stored, market>>

\* The quote source's answer for a pair changes.
MarketMoves(pair, q) ==
    /\ last.call = "none"
    /\ market[pair] # q
    /\ market' = [market EXCEPT ![pair] = q]
    /\ UNCHANGED <<storeVars, now, threadVars, hist, price_graph, stored, last>>

Quotes == {QuoteFails} \cup {Quoted(p) : p \in PriceValues}

\* The settings file of a configured installation.
ConfigDoc ==
    "program_url" :> DumpVal(PyStr(ProgramUrl)) @@ "version" :> DumpVal(PyStr(Version))
    @@ "last_updated" :> DumpVal(PyInt(0))
    @@ "options" :> ("price_update_interval" :> DumpVal(PyInt(1))
                     @@ "settings_update_interval" :> DumpVal(PyInt(DefaultSyncInterval)))
    @@ "credentials" :> EmptyDict

\* A settings file that is a JSON document without an options section.
BareDoc == "version" :> DumpVal(PyStr(Version))

NoLocals == [t \in Threads |-> EmptyBlob]

\* The module has been imported (get_settings(), line 280, has loaded the file)
\* and a PriceNetwork has been constructed with doInitGraph = False.
InitRouter ==
    /\ file = JsonFile(ConfigDoc)
    /\ now = 0
    /\ LET m == json_load(ConfigDoc, {}, NoHeap)
           c == price_network_init(m.js, m.heap, UsedBy(m.js, NoLocals))
       IN  /\ js_settings = c.js
           /\ heap = c.heap
    /\ js_settings_ts = 0
    /\ pc = [t \in Threads |-> "idle"]
    /\ op = [t \in Threads |-> NoOp]
    /\ sett = NoLocals
    /\ doInit = [t \in Threads |-> FALSE]
    /\ ret = [t \in Threads |-> NoRet]
    /\ hist = NoHist
    /\ price_graph = NoGraph
    /\ stored = [x \in {} |-> [price |-> 0, time |-> 0]]
    /\ market \in [QuotePairs -> Quotes]
    /\ last = NoCall

Init == InitRouter

TickRouter == last.call = "none" /\ Tick

Next ==
    \/ \E q \in Queries, value \in Values, get_last \in BOOLEAN :
        GetPriceCall(q[1], q[2], value, get_last)
    \/ \E q \in Pairs, value \in Values, get_last \in BOOLEAN :
        DoGetPriceCall(q[1], q[2], value, get_last)
    \/ \E basket_name \in Symbols \ {"Z"}, get_last \in BOOLEAN :
        GetBasketValueCall(basket_name, "Z", get_last)
    \/ \E text \in PairTexts, value \in Values : PriceCall(text, value, FALSE)
    \/ InitGraphCall
    \/ \E b \in BasketsSet : SetBasketCall(b[1], b[2])
    \/ \E basket_name \in BasketNames : RemoveBasketCall(basket_name)
    \/ Return
    \/ \E pair \in QuotePairs, q \in Quotes : MarketMoves(pair, q)
    \/ TickRouter

Spec == Init /\ [][Next]_vars

----------------------------------------------------------------------------
(* The settings store used by one thread, step by step, across restarts *)

OptionKeys == {"k"}
OptionValues == {PyStr("v"), PyInt(7), PyTuple("ab")}

\* The module has been imported: its get_settings() (line 280) has seeded the
\* defaults or loaded the settings file. No PriceNetwork is used.
InitStore ==
    /\ file \in {NoFile, JsonFile(ConfigDoc), JsonFile(BareDoc)}
    /\ now = 0
    /\ js_settings = import_settings(file, 0).js
    /\ heap = import_settings(file, 0).heap
    /\ js_settings_ts = 0
    /\ pc = [t \in Threads |-> "idle"]
    /\ op = [t \in Threads |-> NoOp]
    /\ sett = NoLocals
    /\ doInit = [t \in Threads |-> FALSE]
    /\ ret = [t \in Threads |-> NoRet]
    /\ hist = NoHist
    /\ price_graph = NoGraph
    /\ stored = [x \in {} |-> [price |-> 0, time |-> 0]]
    /\ market = [pair \in QuotePairs |-> QuoteFails]
    /\ last = NoCall

NextStore ==
    \/ \E k \in OptionKeys, v \in OptionValues :
        Call("t1", [name |-> "set_option", key |-> k, val |-> v])
    \/ \E k \in OptionKeys : Call("t1", [name |-> "get_option", key |-> k, val |-> PyNone])
    \/ \E k \in OptionKeys : Call("t1", [name |-> "remove_option", key |-> k, val |-> PyNone])
    \/ \E k \in OptionKeys : Call("t1", [name |-> "get_settings", key |-> k, val |-> PyInt(7)])
    \/ Call("t1", [NoOp EXCEPT !.name = "reload_settings"])
    \/ Call("t1", [NoOp EXCEPT !.name = "write_settings"])
    \/ ReloadClear("t1")
    \/ GsCheck("t1")
    \/ GsInit("t1")
    \/ GsCopy("t1")
    \/ GetOption("t1")
    \/ SetOption("t1")
    \/ RemoveOption("t1")
    \/ CallerMutates("t1")
    \/ SetSettings("t1")
    \/ WsTimestamp("t1")
    \/ WsDump("t1")
    \/ Restart
    \/ Tick

SpecStore == InitStore /\ [][NextStore]_vars

----------------------------------------------------------------------------
(* Two threads using the settings store with no settings file, step by step *)

InitSeed == InitStore /\ file = NoFile

NextSeed ==
    \E t \in Threads :
        \/ Call(t, [NoOp EXCEPT !.name = "reload_settings"])
        \/ \E k \in OptionKeys : Call(t, [name |-> "set_option", key |-> k, val |-> PyInt(7)])
        \/ ReloadClear(t)
        \/ GsCheck(t)
        \/ GsInit(t)
        \/ GsCopy(t)
        \/ SetOption(t)
        \/ SetSettings(t)

SpecSeed == InitSeed /\ [][NextSeed]_vars

----------------------------------------------------------------------------
(* The background flush task (_sync_settings) beside a thread that changes *)
(* the options                                                             *)

SyncThread == "t2"
IntervalOption == "settings_update_interval"
NumericTexts == {"7"}

\* float(v), line 275: a number or a numeric text is converted, any other text
\* raises ValueError and any other value TypeError.
float_of(v) ==
    CASE v.t = "int" -> Returned(v)
      [] v.t \in {"str", "unicode"} /\ v.s \in NumericTexts -> Returned(v)
      [] v.t \in {"str", "unicode"} -> Raised("ValueError")
      [] OTHER -> Raised("TypeError")

\* The task is at the top of its `while True` loop (line 273): it has just been
\* started, or the write_settings() of the last cycle has returned.
AtLoopTop ==
    /\ pc[SyncThread] = "idle"
    /\ \/ op[SyncThread].name = "none"
       \/ op[SyncThread].name = "write_settings" /\ ret[SyncThread].ok

\* _sync_settings, line 274: the cycle starts by reading the interval option.
SyncReadInterval ==
    /\ AtLoopTop
    /\ Call(SyncThread, [name |-> "get_option", key |-> IntervalOption, val |-> PyNone])

\* _sync_settings, lines 275-276: get_option has returned; float(interval),
\* time.sleep, then write_settings(). An exception of float() is not caught.
SyncSleepThenWrite ==
    /\ pc[SyncThread] = "idle"
    /\ op[SyncThread].name = "get_option"
    /\ ret[SyncThread].ok
    /\ IF float_of(ret[SyncThread].val).ok
       THEN Call(SyncThread, [NoOp EXCEPT !.name = "write_settings"])
       ELSE /\ ret' = [ret EXCEPT ![SyncThread] = float_of(ret[SyncThread].val)]
            /\ UNCHANGED <<storeVars, now, pc, op, sett, doInit, hist, routerVars>>

\* The next step of the task's loop. Nothing in _sync_settings catches an
\* exception (lines 271-277), so the loop has no step after a call that raised.
SyncTask == SyncReadInterval \/ SyncSleepThenWrite

InitSync == InitStore /\ file = NoFile

NextSync ==
    \/ \E v \in {PyInt(7), PyStr("v")} :
        Call("t1", [name |-> "set_option", key |-> IntervalOption, val |-> v])
    \/ Call("t1", [name |-> "remove_option", key |-> IntervalOption, val |-> PyNone])
    \/ SyncReadInterval
    \/ SyncSleepThenWrite
    \/ \E t \in Threads :
        \/ GsCheck(t)
        \/ GsCopy(t)
        \/ GetOption(t)
        \/ SetOption(t)
        \/ RemoveOption(t)
        \/ SetSettings(t)
        \/ WsTimestamp(t)
        \/ WsDump(t)
    \/ Tick

SpecSync == InitSync /\ [][NextSync]_vars

----------------------------------------------------------------------------
(* Two threads calling set_basket of one PriceNetwork, step by step *)

\* set_basket, line 194: sett["Baskets"].update({basket_name: basket_d}), on the
\* Baskets dict of the blob get_settings() returned; a blob with no Baskets
\* section raises KeyError.
SetBasketUpdate(t) ==
    /\ pc[t] = "body"
    /\ op[t].name = "set_basket"
    /\ IF "Baskets" \notin DOMAIN sett[t]
       THEN Finish(t, Raised("KeyError"), js_settings, heap)
       ELSE Goto(t, "set", sett[t], js_settings,
                 [heap EXCEPT ![sett[t]["Baskets"].n] = DictSet(@, op[t].key, op[t].val)])
            /\ UNCHANGED doInit
    /\ UNCHANGED <<js_settings_ts, file, now, hist, routerVars>>

\* set_basket, line 196: init_graph(), under the PriceNetwork's lock. The
\* sett["Baskets"] of _get_baskets (line 43) raises KeyError when the blob has
\* no Baskets section.
generate_and_assign(t) ==
    /\ IF "Baskets" \notin DOMAIN js_settings
       THEN /\ Finish(t, Raised("KeyError"), js_settings, heap)
            /\ UNCHANGED <<stored, price_graph>>
       ELSE LET x == init_graph(Env, Run(stored, price_graph), MaxDepth)
            IN  /\ stored' = x.stored
                /\ price_graph' = x.graph
                /\ Finish(t, IF x.res.ok THEN Returned(PyNone) ELSE Raised(x.res.err),
                          js_settings, heap)
    /\ UNCHANGED <<js_settings_ts, file, now, hist, market, last>>

InitGraphStep(t) ==
    /\ pc[t] = "graph"
    /\ generate_and_assign(t)

ThreadBaskets == BasketsSet \cup {<<"K", ("Y" :> 2)>>}

\* A PriceNetwork has been constructed, with doInitGraph False or True.
InitBasket ==
    /\ file = JsonFile(ConfigDoc)
    /\ now = 0
    /\ LET m == json_load(ConfigDoc, {}, NoHeap)
           c == price_network_init(m.js, m.heap, UsedBy(m.js, NoLocals))
       IN  /\ js_settings = c.js
           /\ heap = c.heap
    /\ js_settings_ts = 0
    /\ pc = [t \in Threads |-> "idle"]
    /\ op = [t \in Threads |-> NoOp]
    /\ sett = NoLocals
    /\ doInit = [t \in Threads |-> FALSE]
    /\ ret = [t \in Threads |-> NoRet]
    /\ hist = NoHist
    /\ market \in [QuotePairs -> Quotes]
    /\ last = NoCall
    /\ \E doInitGraph \in BOOLEAN :
        LET x == init_graph(Env, Run([p \in {} |-> [price |-> 0, time |-> 0]], NoGraph),
                            MaxDepth)
        IN  /\ price_graph = IF doInitGraph THEN x.graph ELSE NoGraph
            /\ stored = IF doInitGraph THEN x.stored ELSE Run(<<>>, NoGraph).stored

NextBasket ==
    \E t \in Threads :
        \/ \E b \in ThreadBaskets :
            Call(t, [name |-> "set_basket", key |-> b[1], val |-> PyDict(b[2])])
        \/ GsCheck(t)
        \/ GsCopy(t)
        \/ SetBasketUpdate(t)
        \/ SetSettings(t)
        \/ InitGraphStep(t)

SpecBasket == InitBasket /\ [][NextBasket]_vars

----------------------------------------------------------------------------
(* The three locks, acquisition by acquisition: the PriceNetwork's lock    *)
(* (self._lock), the settings lock (_js_settings_lock) and the file lock   *)
(* (_js_filelock). A lock held by one thread makes every other thread that *)
(* wants it wait; a thread may take again a lock it holds.                 *)

GraphLock == "graph"
SettingsLock == "settings"
FileLock == "file"
NoLock == "none"

\* The locks a thread holds at a step, in the order it took them: the `with`
\* blocks the step is inside of.
Held(p) ==
    CASE p = "gs_locked" -> <<SettingsLock>>
      [] p = "gs_file" -> <<SettingsLock, FileLock>>
      [] p = "ws_dump_locked" -> <<FileLock>>
      [] p \in {"ig_locked", "ig_build"} -> <<GraphLock>>
      [] p = "ig_gs_locked" -> <<GraphLock, SettingsLock>>
      [] p = "ig_gs_file" -> <<GraphLock, SettingsLock, FileLock>>
      [] OTHER -> <<>>

\* The stamp of write_settings read inside its `with _js_filelock` block.
AcquiresStampUnderFileLock(p, load) ==
    CASE p \in {"reload", "gs_check", "gs_init", "gs_copy", "set", "ws_ts", "ig_locked", "ig_build",
                "ws_dump_locked"} -> SettingsLock
      [] p = "ws_dump" -> FileLock
      [] p = "graph" -> GraphLock
      [] p \in {"gs_locked", "ig_gs_locked"} /\ load -> FileLock
      [] OTHER -> NoLock

\* The lock the step at p takes: the `with` statement the step enters. Inside
\* get_settings' locked section the file lock is taken when the blob has to be
\* loaded (lines 86-92).
Acquires(p, load) ==
    CASE p \in {"reload", "gs_check", "gs_init", "gs_copy", "set", "ws_ts", "ig_locked", "ig_build"}
            -> SettingsLock
      [] p = "ws_dump" -> FileLock
      [] p = "graph" -> GraphLock
      [] p \in {"gs_locked", "ig_gs_locked"} /\ load -> FileLock
      [] OTHER -> NoLock

\* get_settings, lines 86 and 89: the blob is empty and there is a file.
MustLoad == DOMAIN js_settings = {} /\ file # NoFile

HeldBy(t) == {Held(pc[t])[i] : i \in DOMAIN Held(pc[t])}

Wanted(t) == Acquires(pc[t], MustLoad)

\* The lock thread t wants is held by no other thread.
Unblocked(t) == \A u \in Threads \ {t} : Wanted(t) \notin HeldBy(u)

\* Where a thread is once it has taken the lock it wanted at p.
AfterAcquire(p) ==
    CASE p = "gs_check" -> "gs_locked"
      [] p = "gs_locked" -> "gs_file"
      [] p = "ws_dump" -> "ws_dump_locked"
      [] p = "graph" -> "ig_locked"
      [] p = "ig_locked" -> "ig_gs_locked"
      [] p = "ig_gs_locked" -> "ig_gs_file"
      [] OTHER -> p

\* A thread calls PriceNetwork.init_graph().
CallInitGraph(t) ==
    /\ pc[t] = "idle"
    /\ op' = [op EXCEPT ![t] = [NoOp EXCEPT !.name = "init_graph"]]
    /\ pc' = [pc EXCEPT ![t] = "graph"]
    /\ ret' = [ret EXCEPT ![t] = NoRet]
    /\ UNCHANGED <<storeVars, now, sett, doInit, hist, routerVars>>

\* A `with` statement is entered: settings.py lines 85, 92 and 137,
\* PriceNetwork.py line 161, and the get_settings() of _get_baskets (line 42)
\* that _generate_graph calls first (through get_symbols, lines 96 and 184).
LkAcquire(t) ==
    /\ AfterAcquire(pc[t]) # pc[t]
    /\ pc[t] \in {"gs_locked", "ig_gs_locked"} => MustLoad
    /\ pc' = [pc EXCEPT ![t] = AfterAcquire(pc[t])]
    /\ UNCHANGED <<storeVars, now, op, sett, doInit, ret, hist, routerVars>>

\* The locked section of get_settings, and its locks are released.
LkGetSettings(t) ==
    \/ /\ \/ pc[t] = "gs_locked" /\ ~MustLoad
          \/ pc[t] = "gs_file"
       /\ get_settings_locked(t, "gs_copy")
    \/ /\ \/ pc[t] = "ig_gs_locked" /\ ~MustLoad
          \/ pc[t] = "ig_gs_file"
       /\ get_settings_locked(t, "ig_build")

\* write_settings, lines 138-143, inside `with _js_filelock`.
LkDump(t) ==
    /\ pc[t] = "ws_dump_locked"
    /\ json_dump_to_file(t)

\* The rest of _generate_graph, the assignment of line 162 and the release of
\* the PriceNetwork's lock. The build calls get_settings() again and again (for
\* every _get_baskets); one that finds the blob emptied goes the way of the first.
LkBuild(t) ==
    /\ pc[t] = "ig_build"
    /\ IF DOMAIN js_settings = {}
       THEN /\ pc' = [pc EXCEPT ![t] = "ig_locked"]
            /\ UNCHANGED <<storeVars, now, op, sett, doInit, ret, hist, routerVars>>
       ELSE generate_and_assign(t)

\* A step of thread t's call: it waits while another thread holds the lock the
\* step takes.
LockStep(t) ==
    \/ Unblocked(t) /\ LkAcquire(t)
    \/ Unblocked(t) /\ LkGetSettings(t)
    \/ Unblocked(t) /\ ReloadClear(t)
    \/ Unblocked(t) /\ GsCopy(t)
    \/ Unblocked(t) /\ SetBasketUpdate(t)
    \/ Unblocked(t) /\ SetSettings(t)
    \/ Unblocked(t) /\ WsTimestamp(t)
    \/ Unblocked(t) /\ LkDump(t)
    \/ Unblocked(t) /\ LkBuild(t)

InitLocks == InitBasket /\ \A p \in QuotePairs : market[p] = Quoted(2)

NextLocks ==
    \E t \in Threads :
        \/ Call(t, [name |-> "set_basket", key |-> "K", val |-> PyDict("Y" :> 2)])
        \/ Call(t, [NoOp EXCEPT !.name = "reload_settings"])
        \/ Call(t, [NoOp EXCEPT !.name = "write_settings"])
        \/ CallInitGraph(t)
        \/ LockStep(t)

SpecLocks == InitLocks /\ [][NextLocks]_vars

----------------------------------------------------------------------------
(* Claims about the price network, checked under Spec *)

\* A call is made in this step.
Calls(name) == last.call = "none" /\ last'.call = name

PriceUpdateInterval == Env.interval.v

\* The cached entry of a pair is no older than price_update_interval.
FreshlyCached(pair) ==
    has_stored_price(stored, pair) /\ now - stored[pair].time <= PriceUpdateInterval

\* C1: for a cached pair no older than price_update_interval,
\* _do_get_price(FROM, TO, value, use_last_known = false) returns the stored
\* price times value with no fresh quote and no basket valuation, for every
\* value (0 included); an older entry is not reused: a fresh quote is asked or
\* the basket is valued.
C1_FreshCacheIsReused ==
    [][(Calls("_do_get_price") /\ ~last'.get_last
        /\ has_stored_price(stored, Format(last'.from, last'.to)))
       => LET pair == Format(last'.from, last'.to)
          IN  IF FreshlyCached(pair)
              THEN /\ last'.res = Ok(stored[pair].price * last'.value)
                   /\ last'.quotes = {}
                   /\ last'.valued = {}
              ELSE pair \in last'.quotes \/ last'.from \in last'.valued]_vars

\* C2: a request with use_last_known = true never asks the quote source for a
\* fresh quote, on any hop and for any constituent of a basket (the graph is
\* built already, so that no quote is asked to build it).
C2_LastKnownNeverQuotes ==
    [][(/\ \/ Calls("get_price")
           \/ Calls("_do_get_price")
           \/ Calls("_get_basket_value")
        /\ last'.get_last
        /\ price_graph.built)
       => last'.quotes = {}]_vars

\* C7: when the shortest path from A to C is A-B-C and both A/B and B/C have
\* fresh cached rates, get_price(A, C, value) returns value * r(A,B) * r(B,C).
C7_TwoHopProduct ==
    [][(/\ Calls("get_price")
        /\ price_graph.built
        /\ LET sh == shortest_path(price_graph, last'.from, last'.to)
           IN  /\ sh.err = ""
               /\ Len(sh.path) = 3
               /\ FreshlyCached(Format(sh.path[1], sh.path[2]))
               /\ FreshlyCached(Format(sh.path[2], sh.path[3])))
       => LET sh == shortest_path(price_graph, last'.from, last'.to)
          IN  last'.res = Ok(last'.value * stored[Format(sh.path[1], sh.path[2])].price
                                         * stored[Format(sh.path[2], sh.path[3])].price)]_vars

RECURSIVE UnitPrices(_, _, _, _, _, _, _, _)
UnitPricesAdd(e, x, names, i, basket_d, to, get_last, sum) ==
    IF ~x.res.ok THEN x
    ELSE UnitPrices(e, x, names, i + 1, basket_d, to, get_last,
                    sum + basket_d[names[i]] * x.res.v)

\* The sum over a basket's constituents of weight * get_price(constituent, to, 1),
\* the calls made one after the other.
UnitPrices(e, r, names, i, basket_d, to, get_last, sum) ==
    IF i > Len(names) THEN [r EXCEPT !.res = Ok(sum)]
    ELSE UnitPricesAdd(e, get_price(e, r, names[i], to, 1, get_last, MaxDepth),
                       names, i, basket_d, to, get_last, sum)

\* C8: the value of basket B in Z is the sum over its constituents c of
\* weight(c) * get_price(c, Z, 1) (and fails as the first of these calls that
\* fails does); a name that is no basket gives the unknown-basket error.
C8_BasketValueIsWeightedSum ==
    [][Calls("_get_basket_value")
       => IF last'.from \notin DOMAIN Env.baskets
          THEN last'.res = Err("PriceNetworkError")
          ELSE LET basket_d == Env.baskets[last'.from].d
               IN  last'.res = UnitPrices(Env, Run(stored, price_graph), KeysInOrder(basket_d),
                                          1, basket_d, last'.to, last'.get_last, 0).res]_vars

\* C8 witness: a basket of two constituents has been valued.
C8_Witness ==
    /\ last.call = "_get_basket_value"
    /\ last.from \in DOMAIN Env.baskets
    /\ Cardinality(DOMAIN Env.baskets[last.from].d) = 2
    /\ last.res.ok
    /\ last.res.v > 0

RECURSIVE ReachableFrom(_, _)
\* The nodes of G connected to a node of S.
ReachableFrom(G, S) ==
    LET more == S \cup UNION {Nbrs(G, n) : n \in S}
    IN  IF more = S THEN S ELSE ReachableFrom(G, more)

\* C9: get_price(A, B), A # B, fails with PriceNetworkError when A and B are
\* nodes of different connected components of the graph.
C9_NoRouteError ==
    [][(/\ Calls("get_price")
        /\ last'.from # last'.to
        /\ price_graph.built
        /\ {last'.from, last'.to} \subseteq price_graph.nodes
        /\ last'.to \notin ReachableFrom(price_graph, {last'.from}))
       => last'.res = Err("PriceNetworkError")]_vars

Separators(text) == Cardinality({i \in 1..Len(text) : text[i] = "/"})

\* C10: price("FROM/TO", value, use_last_known) returns what get_price(FROM, TO,
\* value, use_last_known) returns when the text has exactly one separator, and
\* fails with the parse error for every text that has none or several.
C10_PriceParsesOnePair ==
    [][Calls("price")
       => IF Separators(last'.text) = 1
          THEN LET parts == Split1(last'.text)
               IN  last'.res = get_price(Env, Run(stored, price_graph),
                                         Join(Strip(parts[1])), Join(Strip(parts[2])),
                                         last'.value, last'.get_last, MaxDepth).res
          ELSE last'.res = Err("PriceNetworkError")]_vars
\* C11: get_price(A, A, v) returns v and leaves the graph (built or not) and
\* the price cache as they were, with no quote asked and no basket valued.
C11_SameAssetIsIdentity ==
    [][(Calls("get_price") /\ last'.from = last'.to)
       => /\ last'.res = Ok(last'.value)
          /\ price_graph' = price_graph
          /\ stored' = stored
          /\ last'.quotes = {}
          /\ last'.valued = {}]_vars

\* C11 witness: get_price(A, A, 2) has returned 2 on a network whose graph is
\* not built.
C11_Witness ==
    /\ last.call = "get_price"
    /\ last.from = last.to
    /\ last.value = 2
    /\ last.res = Ok(2)
    /\ ~price_graph.built

----------------------------------------------------------------------------
(* Claims about the settings store, checked under SpecStore *)

\* The last call, set_option(k, v), has returned, and in this step the process
\* is restarted: write_settings at exit, then the file is loaded.
RestartAfterSetOption ==
    /\ pc["t1"] = "idle"
    /\ op["t1"].name = "set_option"
    /\ ret["t1"].ok
    /\ op'["t1"].name = "restart"

\* get_option(k) after the step returns the value v that was set.
OptionIsBack ==
    /\ get_option(js_settings', heap', op["t1"].key).ok
    /\ PyEq(get_option(js_settings', heap', op["t1"].key).val, op["t1"].val)

JsonTypes == {"None", "int", "str", "unicode", "list", "dict"}

C5_ReturnedBlobIsDetached ==
    [][(/\ pc["t1"] = "body"
        /\ op["t1"].name = "get_settings"
        /\ pc'["t1"] = "idle")
       => Deref(js_settings', heap') = Deref(js_settings, heap)]_vars

\* C6: a write_settings that follows a mutation made at time t writes a
\* last_updated of at least t.
C6_WriteIsStampedAfterMutation ==
    [][(/\ pc["t1"] = "ws_dump"
        /\ pc'["t1"] = "idle"
        /\ ret'["t1"].ok)
       => file'.doc["last_updated"].n >= hist.mutated_at]_vars

\* C12: whenever the empty blob is filled (defaults seeded, or the file loaded
\* at first access or on a reload), the live blob has an options section.
C12_LoadedBlobHasOptions ==
    [][(DOMAIN js_settings = {} /\ DOMAIN js_settings' # {})
       => HasOptionsSection(js_settings')]_vars

\* C14: when write_settings ends, with or without an error, the file is the
\* document it held before or the complete new document.
C14_WriteIsAllOrNothing ==
    [][(pc["t1"] = "ws_dump" /\ pc'["t1"] = "idle")
       => \/ file' = file
          \/ file' = JsonFile(JsonDump(sett["t1"], heap))]_vars

----------------------------------------------------------------------------
(* Claims about concurrent set_basket calls, checked under SpecBasket *)

AllReturned == \A t \in Threads : pc[t] = "idle"

LiveBaskets == heap[js_settings["Baskets"].n]

Listed(symbols) == {symbols[i] : i \in 1..Len(symbols)}

\* C4: once every set_basket call has returned, each name that was set is in
\* the basket map with the definition one of its callers gave, and get_symbols
\* lists it.
C4_NoBasketLost ==
    AllReturned =>
        \A b \in hist.set_baskets :
            /\ b[1] \in DOMAIN LiveBaskets
            /\ <<b[1], LiveBaskets[b[1]]>> \in hist.set_baskets
            /\ b[1] \in Listed(get_symbols(Env))

\* C4 witness: both threads have set a basket, of different names, and have
\* returned.
C4_Witness ==
    /\ AllReturned
    /\ op["t1"].name = "set_basket"
    /\ op["t2"].name = "set_basket"
    /\ op["t1"].key # op["t2"].key
    /\ {op["t1"].key, op["t2"].key} \subseteq Listed(get_symbols(Env))

----------------------------------------------------------------------------
(* Claims about the graph's construction, checked under Spec *)

\* C13: a set_basket(name, d) that brings in a new name, made on a network
\* whose graph is built, returns without error and leaves a rebuilt graph that
\* has name as a node, in agreement with the settings.
C13_NewBasketOnBuiltGraph ==
    [][(Calls("set_basket") /\ price_graph.built /\ last'.from \notin price_graph.nodes)
       => /\ last'.res.ok
          /\ price_graph'.built
          /\ last'.from \in price_graph'.nodes
          /\ price_graph'.nodes = Listed(get_symbols(Env'))]_vars

\* The price of a market of the quote source whose first asset is no basket is
\* resolved when it is stored or the quote source answers.
Resolved(mkt) == has_stored_price(stored, mkt) \/ market[mkt].ok

PlainMarkets == {m \in QuotePairs : ~is_basket(Env, Split(m)[1])}

\* C17: init_graph completes whichever markets fail with a quote-source error:
\* every known symbol is a node, and a market of the quote source has an edge
\* exactly if its price was resolved.
C17_GraphBuildToleratesFailedMarkets ==
    [][Calls("init_graph")
       => /\ last'.res.ok
          /\ price_graph'.built
          /\ Listed(get_symbols(Env)) \subseteq price_graph'.nodes
          /\ \A m \in PlainMarkets :
                ({Split(m)[1], Split(m)[2]} \in price_graph'.edges) <=> Resolved(m)]_vars

\* C18: with a basket configured and no graph built, the first build
\* (init_graph, or the get_price that triggers it) installs a graph.
C18_FirstBuildCompletes ==
    [][(/\ \/ Calls("init_graph")
           \/ Calls("get_price") /\ last'.from # last'.to
        /\ ~price_graph.built
        /\ DOMAIN Env.baskets # {})
       => price_graph'.built]_vars

----------------------------------------------------------------------------
(* Claims about concurrent first access, checked under SpecSeed *)

\* C19: init_settings() installs the defaults only while the blob is empty:
\* an option that is in the live blob, every set_option having completed, is
\* still there after another caller's init_settings().
C19_SeedingKeepsSetOptions ==
    [][\A t \in Threads :
          (pc[t] = "gs_init" /\ pc'[t] = "gs_copy" /\ \A u \in Threads \ {t} : pc[u] = "idle")
          => \A k \in OptionKeys :
                get_option(js_settings, heap, k).ok
                => get_option(js_settings', heap', k) = get_option(js_settings, heap, k)]_vars

----------------------------------------------------------------------------
(* Claims about the background flush task, checked under SpecSync *)

\* A call of a cycle of the flush task has raised.
CycleFailed ==
    /\ pc[SyncThread] = "idle"
    /\ ~ret[SyncThread].ok
    /\ ret[SyncThread].err # "running"

\* C15: the flush task runs indefinitely: a cycle that failed (write_settings
\* raising a persistence error, or the interval option being unreadable) is
\* followed by the next cycle.
C15_FailedCycleDoesNotStopTask == CycleFailed => ENABLED SyncTask

----------------------------------------------------------------------------
(* Claims about the locks, checked under SpecLocks *)

\* C16: the PriceNetwork's lock and the settings lock never nest: no thread
\* holds the one while it takes or holds the other.
C16_GraphAndSettingsLocksNeverNest ==
    \A t \in Threads :
        /\ ~(GraphLock \in HeldBy(t) /\ (SettingsLock \in HeldBy(t) \/ Wanted(t) = SettingsLock))
        /\ ~(SettingsLock \in HeldBy(t) /\ (GraphLock \in HeldBy(t) \/ Wanted(t) = GraphLock))

LockRank(l) ==
    CASE l = GraphLock -> 1
      [] l = SettingsLock -> 2
      [] l = FileLock -> 3
      [] OTHER -> 0

\* Thread t takes no lock that comes before one it holds.
TakesInOrder(t) ==
    Wanted(t) # NoLock
    => \A l \in HeldBy(t) : LockRank(l) <= LockRank(Wanted(t))

\* Thread t is not in a call, or the lock its next step takes is free for it,
\* or it waits for a lock whose holder's next step is not waiting.
NotStuck(t) ==
    \/ pc[t] = "idle"
    \/ Unblocked(t)
    \/ \E u \in Threads \ {t} : Wanted(t) \in HeldBy(u) /\ Unblocked(u)

\* C20: the locks are taken in the one order PriceNetwork's lock, settings
\* lock, file lock, never in the reverse order, and no interleaving of the
\* callers deadlocks.
C20_OneLockOrderNoDeadlock == \A t \in Threads : TakesInOrder(t) /\ NotStuck(t)

\* One thread holds all three locks while the other waits for the file lock.
C20_Witness ==
    \E t \in Threads, u \in Threads :
        /\ pc[t] = "ig_gs_file"
        /\ pc[u] = "ws_dump"
====
